---------------------------- MODULE Spec2Model ----------------------------
(***************************************************************************)
(* A model of package money (src/money/money.go): the fixed-point Money    *)
(* value, its arithmetic, the package-wide decimal scale DP/DPf, and the   *)
(* two display paths String and Format.                                    *)
(*                                                                         *)
(* Amounts are two's-complement machine integers.  The source uses int64;  *)
(* the model keeps the same arithmetic at Width bits so that the whole     *)
(* range, its two ends included, can be enumerated.  Text is a sequence of *)
(* one-character strings.  A float64 is modelled only where the source's   *)
(* float arithmetic is exact: as a multiple of 2^-FBits.                    *)
(***************************************************************************)
EXTENDS Integers, Sequences, FiniteSets, TLC

VARIABLES
    M,          \* Money.M of the receiver
    C,          \* Money.C of the receiver
    DP,         \* package variable DP
    DPf,        \* package variable DPf
    locales,    \* the locale directory: locale id -> record, or Nil
    currencies, \* the currency directory: currency code -> record, or Nil
    err,        \* the panic value of the last call, NoErr if it returned
    out,        \* the string the last String/Format call returned
    ret,        \* the integer the last Gett/Sign call returned
    last,       \* the last call: its name, its arguments, the state before it
    pc,         \* "idle", or "grouping" inside Format's grouping loop
    fl,         \* Format's locals while it runs, and as it left them
    wholeVal,   \* Format's local wholeVal
    groups      \* Format's local groups

vars == <<M, C, DP, DPf, locales, currencies, err, out, ret, last, pc, fl,
          wholeVal, groups>>

---------------------------------------------------------------------------
(* Bounds of the model. *)

\* bits of a machine integer (the source's int64 has 64)
Width == 11
\* a modelled float64 is a multiple of 2^-FBits
FBits == 3
\* float arguments range over -MaxK..MaxK multiples of 2^-FBits
MaxK == 10
\* largest accepted exponent given to the SetDecimal family
MaxD == 3
\* largest CurrencyDecimalDigits of a locale record
MaxDigits == 3
\* largest first element of CurrencyGroupSizes of a locale record
MaxGroupSize == 4
\* iterations after which the exploration of Format's grouping loop stops
MaxGroups == 6

---------------------------------------------------------------------------
(* Machine integers. *)

MinInt == -(2^(Width - 1))
MaxInt == 2^(Width - 1) - 1
Int64 == MinInt..MaxInt

\* the value an int64 computation keeps of the mathematical result x
Wrap(x) == ((x - MinInt) % (2^Width)) + MinInt

AbsInt(x) == IF x < 0 THEN -x ELSE x

\* Go's integer division truncates toward zero; b # 0
Quot(a, b) ==
    LET q == AbsInt(a) \div AbsInt(b)
    IN  Wrap(IF (a < 0) = (b < 0) THEN q ELSE -q)

\* Go's remainder has the sign of the dividend; b # 0
Rem(a, b) ==
    LET r == AbsInt(a) % AbsInt(b)
    IN  IF a < 0 THEN -r ELSE r

ToUnsigned(x) == IF x < 0 THEN x + 2^Width ELSE x
FromUnsigned(u) == IF u >= 2^(Width - 1) THEN u - 2^Width ELSE u

\* bit i of the unsigned word u
Bit(u, i) == (u \div 2^i) % 2

\* the bits i..Width-1 of two unsigned words combined one by one
RECURSIVE XorBits(_, _, _)
XorBits(a, b, i) ==
    IF i = Width THEN 0
    ELSE (IF Bit(a, i) # Bit(b, i) THEN 2^i ELSE 0) + XorBits(a, b, i + 1)

RECURSIVE AndBits(_, _, _)
AndBits(a, b, i) ==
    IF i = Width THEN 0
    ELSE (IF Bit(a, i) = 1 /\ Bit(b, i) = 1 THEN 2^i ELSE 0)
         + AndBits(a, b, i + 1)

RECURSIVE AndNotBits(_, _, _)
AndNotBits(a, b, i) ==
    IF i = Width THEN 0
    ELSE (IF Bit(a, i) = 1 /\ Bit(b, i) = 0 THEN 2^i ELSE 0)
         + AndNotBits(a, b, i + 1)

\* a ^ b
Xor(a, b) == FromUnsigned(XorBits(ToUnsigned(a), ToUnsigned(b), 0))
\* a & b
And(a, b) == FromUnsigned(AndBits(ToUnsigned(a), ToUnsigned(b), 0))
\* a &^ b
AndNot(a, b) == FromUnsigned(AndNotBits(ToUnsigned(a), ToUnsigned(b), 0))

---------------------------------------------------------------------------
(* Package variables and errors. *)

NoErr == "none"
ErrMoneyOverflow == "i18n: money overflow"
ErrMoneyDivideByZero == "i18n: money division by zero"
ErrMoneyDecimalPlacesTooLarge == "i18n: money decimal places too large"
\* the run-time panic of an integer division by zero
ErrRuntimeDivide == "runtime error: integer divide by zero"

MAXDEC == 18

\* Round = .5 and Roundn = Round * -1, in units of 2^-FBits
FUnit == 2^FBits
Round == 2^(FBits - 1)
Roundn == Round * (-1)

\* the nil pointer a directory returns for an unknown key
Nil == [nil |-> TRUE]
NoText == << >>

\* the record of a call: its name, the receiver and the scale before it,
\* its integer argument, its currency argument and its locale argument
Call(op, b, cur, loc) ==
    [op |-> op, a |-> M, c |-> C, dp |-> DP, b |-> b, cur |-> cur,
     loc |-> loc]

NoLocals == [l |-> Nil]

\* what a call that is not inside Format leaves alone
FormatIdle == pc = "idle" /\ UNCHANGED <<pc, fl, wholeVal, groups>>
Directories == UNCHANGED <<locales, currencies>>

---------------------------------------------------------------------------
(* Arithmetic on the receiver. *)

\* (r^m.M)&(r^n.M) < 0
AddOverflows(m, n, r) == And(Xor(r, m), Xor(r, n)) < 0

\* Sub's test written with Add's operator: & for &^
SubOverflowsAnd(m, n, r) == And(Xor(r, m), Xor(r, n)) < 0

\* (r^m.M)&^(r^n.M) < 0
SubOverflows(m, n, r) == AndNot(Xor(r, m), Xor(r, n)) < 0

\* if m.M != 0 { m.M *= -1 }
NegValue(m) == IF m # 0 THEN Wrap(m * (-1)) ELSE m

\* if m.M < 0 { m.Neg() }
AbsValue(m) == IF m < 0 THEN NegValue(m) ELSE m

SignValue(m) == IF m < 0 THEN -1 ELSE 1

Add(n) ==
    /\ FormatIdle /\ Directories
    /\ LET r == Wrap(M + n)
       IN  IF AddOverflows(M, n, r)
           THEN err' = ErrMoneyOverflow /\ M' = M
           ELSE err' = NoErr /\ M' = r
    /\ last' = Call("Add", n, NoText, "")
    /\ out' = NoText /\ ret' = 0
    /\ UNCHANGED <<C, DP, DPf>>

Sub(n) ==
    /\ FormatIdle /\ Directories
    /\ LET r == Wrap(M - n)
       IN  IF SubOverflows(M, n, r)
           THEN err' = ErrMoneyOverflow /\ M' = M
           ELSE err' = NoErr /\ M' = r
    /\ last' = Call("Sub", n, NoText, "")
    /\ out' = NoText /\ ret' = 0
    /\ UNCHANGED <<C, DP, DPf>>

Neg ==
    /\ FormatIdle /\ Directories
    /\ M' = NegValue(M)
    /\ err' = NoErr
    /\ last' = Call("Neg", 0, NoText, "")
    /\ out' = NoText /\ ret' = 0
    /\ UNCHANGED <<C, DP, DPf>>

Abs ==
    /\ FormatIdle /\ Directories
    /\ M' = AbsValue(M)
    /\ err' = NoErr
    /\ last' = Call("Abs", 0, NoText, "")
    /\ out' = NoText /\ ret' = 0
    /\ UNCHANGED <<C, DP, DPf>>

Sign ==
    /\ FormatIdle /\ Directories
    /\ ret' = SignValue(M)
    /\ err' = NoErr
    /\ last' = Call("Sign", 0, NoText, "")
    /\ out' = NoText
    /\ UNCHANGED <<M, C, DP, DPf>>

\* m.Set(m.M * n.M / DP)
Mul(n) ==
    /\ FormatIdle /\ Directories
    /\ IF DP = 0
       THEN err' = ErrRuntimeDivide /\ M' = M
       ELSE err' = NoErr /\ M' = Quot(Wrap(M * n), DP)
    /\ last' = Call("Mul", n, NoText, "")
    /\ out' = NoText /\ ret' = 0
    /\ UNCHANGED <<C, DP, DPf>>

\* return m.M / DP
Gett ==
    /\ FormatIdle /\ Directories
    /\ IF DP = 0
       THEN err' = ErrRuntimeDivide /\ ret' = 0
       ELSE err' = NoErr /\ ret' = Quot(M, DP)
    /\ last' = Call("Gett", 0, NoText, "")
    /\ out' = NoText
    /\ UNCHANGED <<M, C, DP, DPf>>

Set(x) ==
    /\ FormatIdle /\ Directories
    /\ M' = x
    /\ err' = NoErr
    /\ last' = Call("Set", x, NoText, "")
    /\ out' = NoText /\ ret' = 0
    /\ UNCHANGED <<C, DP, DPf>>

Setc(x, currency) ==
    /\ FormatIdle /\ Directories
    /\ M' = x
    /\ C' = currency
    /\ err' = NoErr
    /\ last' = Call("Setc", x, currency, "")
    /\ out' = NoText /\ ret' = 0
    /\ UNCHANGED <<DP, DPf>>

SetCurrency(currency) ==
    /\ FormatIdle /\ Directories
    /\ C' = currency
    /\ err' = NoErr
    /\ last' = Call("SetCurrency", 0, currency, "")
    /\ out' = NoText /\ ret' = 0
    /\ UNCHANGED <<M, DP, DPf>>

---------------------------------------------------------------------------
(* The two directories (packages currency and locale). *)

\* currency.Get(cur): the record of a known code, or Nil
CurrencyGet(cur) ==
    IF cur \in DOMAIN currencies THEN currencies[cur] ELSE Nil

\* locale.Get(lce): the record of a known locale id, or Nil
LocaleGet(lce) ==
    IF lce \in DOMAIN locales THEN locales[lce] ELSE Nil

SetCurrencyByLocale(lce) ==
    /\ FormatIdle /\ Directories
    /\ LET l == LocaleGet(lce)
       IN  C' = IF l # Nil THEN l.CurrencyCode ELSE C
    /\ err' = NoErr
    /\ last' = Call("SetCurrencyByLocale", 0, NoText, lce)
    /\ out' = NoText /\ ret' = 0
    /\ UNCHANGED <<M, DP, DPf>>

---------------------------------------------------------------------------
(* The package-wide scale. *)

\* for i := 0; i < d; i++ { newDec *= 10 }
RECURSIVE TimesTen(_, _, _)
TimesTen(newDec, i, d) ==
    IF i < d THEN TimesTen(newDec * 10, i + 1, d) ELSE newDec

\* newDecimal(d): the panic it raises, or the value it returns
newDecimal(d) ==
    IF d < 0 THEN [panic |-> ErrMoneyDivideByZero, val |-> 0]
    ELSE IF d > MAXDEC
         THEN [panic |-> ErrMoneyDecimalPlacesTooLarge, val |-> 0]
         ELSE [panic |-> NoErr,
               val |-> IF d > 0 THEN TimesTen(0 + 1, 0, d) ELSE 0]

\* decimal := newDecimal(d); DPf = float64(decimal); DP = int64(decimal)
StoreDecimal(d) ==
    LET decimal == newDecimal(d)
    IN  IF decimal.panic # NoErr
        THEN err' = decimal.panic /\ UNCHANGED <<DP, DPf>>
        ELSE err' = NoErr /\ DPf' = decimal.val /\ DP' = decimal.val

SetDecimal(d) ==
    /\ FormatIdle /\ Directories
    /\ StoreDecimal(d)
    /\ last' = Call("SetDecimal", d, NoText, "")
    /\ out' = NoText /\ ret' = 0
    /\ UNCHANGED <<M, C>>

SetDecimalByCurrency(cur) ==
    /\ FormatIdle /\ Directories
    /\ LET c == CurrencyGet(cur)
       IN  /\ IF c # Nil
              THEN StoreDecimal(c.DecimalDigits)
              ELSE err' = NoErr /\ UNCHANGED <<DP, DPf>>
           /\ last' = Call("SetDecimalByCurrency",
                           IF c # Nil THEN c.DecimalDigits ELSE 0, cur, "")
    /\ out' = NoText /\ ret' = 0
    /\ UNCHANGED <<M, C>>

SetDecimalByLocale(lce) ==
    /\ FormatIdle /\ Directories
    /\ LET l == LocaleGet(lce)
       IN  /\ IF l # Nil
              THEN StoreDecimal(l.CurrencyDecimalDigits)
              ELSE err' = NoErr /\ UNCHANGED <<DP, DPf>>
           /\ last' = Call("SetDecimalByLocale",
                           IF l # Nil THEN l.CurrencyDecimalDigits ELSE 0,
                           NoText, lce)
    /\ out' = NoText /\ ret' = 0
    /\ UNCHANGED <<M, C>>

---------------------------------------------------------------------------
(* Rounding and the import of a float. *)

\* Rnd with the negative half decrementing too: trunc <= Roundn
RndHalfAway(r, trunc) ==
    IF trunc > 0
    THEN IF trunc >= Round THEN Wrap(r + 1) ELSE r
    ELSE IF trunc <= Roundn THEN Wrap(r - 1) ELSE r

\* Rnd(r, trunc), trunc in units of 2^-FBits
Rnd(r, trunc) ==
    IF trunc > 0
    THEN IF trunc >= Round THEN Wrap(r + 1) ELSE r
    ELSE IF trunc < Roundn THEN Wrap(r - 1) ELSE r

\* int64(x) of the float x = num * 2^-FBits, when it is in range
Truncate(num) ==
    LET q == AbsInt(num) \div FUnit
    IN  IF num < 0 THEN -q ELSE q

\* fDPf := f * DPf; r := int64(f * DPf); Rnd(r, fDPf-float64(r))
\* for f = k * 2^-FBits
ImportFloat(k) ==
    LET fDPf == k * DPf
        r == Truncate(fDPf)
    IN  Rnd(r, fDPf - r * FUnit)

\* the calls explored: the product f * DPf lies inside int64's range,
\* where the conversion int64(f * DPf) is defined and Rnd cannot wrap
Convertible(k) == Truncate(k * DPf) \in (MinInt + 1)..(MaxInt - 1)

Setf(k) ==
    /\ FormatIdle /\ Directories
    /\ Convertible(k)
    /\ M' = ImportFloat(k)
    /\ err' = NoErr
    /\ last' = Call("Setf", k, NoText, "")
    /\ out' = NoText /\ ret' = 0
    /\ UNCHANGED <<C, DP, DPf>>

Setfc(k, currency) ==
    /\ FormatIdle /\ Directories
    /\ Convertible(k)
    /\ M' = ImportFloat(k)
    /\ C' = currency
    /\ err' = NoErr
    /\ last' = Call("Setfc", k, currency, "")
    /\ out' = NoText /\ ret' = 0
    /\ UNCHANGED <<DP, DPf>>

---------------------------------------------------------------------------
(* Text: fmt.Sprintf's verbs and the strings functions Format uses. *)

DigitChar(d) == <<"0", "1", "2", "3", "4", "5", "6", "7", "8", "9">>[d + 1]

\* the decimal numeral of a natural number
RECURSIVE Numeral(_)
Numeral(n) ==
    IF n < 10 THEN <<DigitChar(n)>>
    ELSE Numeral(n \div 10) \o <<DigitChar(n % 10)>>

Zeros(k) == [i \in 1..k |-> "0"]

\* Sprintf("%d", n)
FmtD(n) == IF n < 0 THEN <<"-">> \o Numeral(-n) ELSE Numeral(n)

\* Sprintf("%0<w>d", n): zeros fill the width left of the digits, and a
\* minus sign takes one column of it
FmtD0(n, w) ==
    LET digits == Numeral(AbsInt(n))
        prec == IF n < 0 THEN w - 1 ELSE w
        fill == IF prec > Len(digits) THEN Zeros(prec - Len(digits))
                ELSE << >>
    IN  (IF n < 0 THEN <<"-">> ELSE << >>) \o fill \o digits

\* strings.Replace(s, old, new, -1) for a one-character old
RECURSIVE Replace(_, _, _)
Replace(s, old, new) ==
    IF s = << >> THEN << >>
    ELSE (IF Head(s) = old THEN new ELSE <<Head(s)>>)
         \o Replace(Tail(s), old, new)

\* the index of the first ch in s, 0 when there is none
RECURSIVE Index(_, _, _)
Index(s, ch, i) ==
    IF i > Len(s) THEN 0
    ELSE IF s[i] = ch THEN i ELSE Index(s, ch, i + 1)

\* strings.SplitN(s, sep, 2) for a one-character sep
SplitN2(s, sep) ==
    LET i == Index(s, sep, 1)
    IN  IF i = 0 THEN <<s>>
        ELSE <<SubSeq(s, 1, i - 1), SubSeq(s, i + 1, Len(s))>>

\* the loop that fills wholeBuf: groups last to first, the separator
\* before every group but the first written
RECURSIVE WholeBuf(_, _, _)
WholeBuf(gs, sep, i) ==
    IF i >= Len(gs) THEN << >>
    ELSE (IF i > 0 THEN sep ELSE << >>) \o gs[Len(gs) - i]
         \o WholeBuf(gs, sep, i + 1)

\* the values int64(math.Pow10(n)) can take: a float out of int64's range
\* converts to an implementation-dependent value (the least int64 on
\* amd64, the greatest on arm64)
Pow10Int64(n) ==
    IF n < 0 THEN {0}
    ELSE IF 10^n <= MaxInt THEN {10^n} ELSE {MinInt, MaxInt}

---------------------------------------------------------------------------
(* Display. *)

\* String(): the receiver it leaves, the text it returns or its panic.
\* m.Abs() on the negative path negates the receiver in place, and runs
\* before the division by DP is evaluated.
StringResult(m, c) ==
    IF SignValue(m) > 0
    THEN IF DP = 0
         THEN [M |-> m, out |-> NoText, err |-> ErrRuntimeDivide]
         ELSE [M |-> m,
               out |-> FmtD(Quot(m, DP)) \o <<".">>
                       \o FmtD0(Rem(m, DP), 2) \o <<" ">> \o c,
               err |-> NoErr]
    ELSE LET a1 == AbsValue(m)
             a2 == AbsValue(a1)
         IN  IF DP = 0
             THEN [M |-> a1, out |-> NoText, err |-> ErrRuntimeDivide]
             ELSE [M |-> a2,
                   out |-> <<"-">> \o FmtD(Quot(a1, DP)) \o <<".">>
                           \o FmtD0(Rem(a2, DP), 2) \o <<" ">> \o c,
                   err |-> NoErr]

String ==
    /\ FormatIdle /\ Directories
    /\ LET s == StringResult(M, C)
       IN  M' = s.M /\ out' = s.out /\ err' = s.err
    /\ last' = Call("String", 0, NoText, "")
    /\ ret' = 0
    /\ UNCHANGED <<C, DP, DPf>>

\* currencySymbol := m.C; if curr != nil { currencySymbol = curr.Symbol }
CurrencySymbol(c) ==
    LET curr == CurrencyGet(c)
    IN  IF curr # Nil THEN curr.Symbol ELSE c

\* groupSize := 3; if len(l.CurrencyGroupSizes) >= 1 { ... [0] }
GroupSize(l) ==
    IF Len(l.CurrencyGroupSizes) >= 1 THEN l.CurrencyGroupSizes[1] ELSE 3

\* absVal := m.Value(); if m.Sign() < 0 { absVal = -absVal }
AbsVal(m) == IF SignValue(m) < 0 THEN Wrap(-m) ELSE m

\* the unformatted string of the whole and decimal parts
Unformatted(l, whole, decVal) ==
    IF l.CurrencyDecimalDigits > 0
    THEN FmtD(whole) \o <<".">> \o FmtD0(decVal, l.CurrencyDecimalDigits)
    ELSE FmtD(whole)

\* one group of the grouping loop
GroupText(whole, groupDp, groupSize) ==
    LET group == Rem(whole, groupDp)
    IN  IF whole < groupDp THEN FmtD(group) ELSE FmtD0(group, groupSize)

\* formatted: the grouped whole part, and the decimal part when the
\* unformatted string has one
Formatted(l, gs, unformatted) ==
    LET parts == SplitN2(unformatted, ".")
        wholeBuf == WholeBuf(gs, l.CurrencyGroupSeparator, 0)
    IN  IF Len(parts) > 1
        THEN wholeBuf \o l.CurrencyDecimalSeparator \o parts[2]
        ELSE wholeBuf

\* the pattern by sign
Pattern(l, m) ==
    IF SignValue(m) > 0 THEN l.CurrencyPositivePattern
    ELSE l.CurrencyNegativePattern

\* output := Replace(pattern, "$", currencySymbol, -1)
\* output = Replace(output, "n", formatted, -1)
Output(pattern, currencySymbol, formatted) ==
    Replace(Replace(pattern, "$", currencySymbol), "n", formatted)

\* Format(loc), up to the grouping loop (lines 224-268)
Format(loc) ==
    /\ pc = "idle"
    /\ Directories
    /\ last' = Call("Format", 0, NoText, loc)
    /\ ret' = 0
    /\ UNCHANGED <<C, DP, DPf>>
    /\ LET l == LocaleGet(loc)
       IN  IF l = Nil
           THEN /\ LET s == StringResult(M, C)
                   IN  M' = s.M /\ out' = s.out /\ err' = s.err
                /\ UNCHANGED <<pc, fl, wholeVal, groups>>
           ELSE \E dp \in Pow10Int64(l.CurrencyDecimalDigits),
                   groupDp \in Pow10Int64(GroupSize(l)) :
                  /\ M' = M
                  /\ out' = NoText
                  /\ groups' = << >>
                  /\ IF dp = 0
                     THEN /\ err' = ErrRuntimeDivide
                          /\ UNCHANGED <<pc, fl, wholeVal>>
                     ELSE /\ err' = NoErr
                          /\ pc' = "grouping"
                          /\ wholeVal' = Quot(AbsVal(M), dp)
                          /\ fl' = [l |-> l,
                                    currencySymbol |-> CurrencySymbol(C),
                                    dp |-> dp,
                                    groupSize |-> GroupSize(l),
                                    groupDp |-> groupDp,
                                    unformatted |->
                                        Unformatted(l, Quot(AbsVal(M), dp),
                                                    Rem(AbsVal(M), dp)),
                                    formatted |-> NoText]

\* one iteration of the grouping loop (lines 269-282); the iteration that
\* breaks runs on to the return (lines 283-312)
FormatGroup ==
    /\ pc = "grouping"
    /\ Len(groups) < MaxGroups
    /\ Directories
    /\ UNCHANGED <<M, C, DP, DPf, ret, last>>
    /\ IF fl.groupDp = 0
       THEN /\ err' = ErrRuntimeDivide
            /\ pc' = "idle"
            /\ out' = NoText
            /\ UNCHANGED <<fl, wholeVal, groups>>
       ELSE LET gs == Append(groups,
                             GroupText(wholeVal, fl.groupDp, fl.groupSize))
                w == Quot(wholeVal, fl.groupDp)
                formatted == Formatted(fl.l, gs, fl.unformatted)
            IN  /\ err' = NoErr
                /\ groups' = gs
                /\ wholeVal' = w
                /\ IF w = 0
                   THEN /\ pc' = "idle"
                        /\ fl' = [fl EXCEPT !.formatted = formatted]
                        /\ out' = Output(Pattern(fl.l, M),
                                         fl.currencySymbol, formatted)
                   ELSE /\ pc' = "grouping"
                        /\ fl' = fl
                        /\ out' = NoText

---------------------------------------------------------------------------
(* The values the calls are explored with. *)

USD == <<"U", "S", "D">>
HRK == <<"H", "R", "K">>
BRL == <<"B", "R", "L">>
JPY == <<"J", "P", "Y">>
XXX == <<"X", "X", "X">>
Codes == {USD, HRK, BRL, JPY, XXX}

\* a currency directory: XXX is not in it
CurrencyTable ==
    (USD :> [DecimalDigits |-> 2, Symbol |-> <<"$">>]) @@
    (HRK :> [DecimalDigits |-> 2, Symbol |-> <<"k", "n">>]) @@
    (BRL :> [DecimalDigits |-> 2, Symbol |-> <<"R", "$">>]) @@
    (JPY :> [DecimalDigits |-> 0, Symbol |-> <<"Y">>])

LocaleIds == {"en-US", "hr-HR", "ja-JP", "xx-XX"}

PatternPairs ==
    {[pos |-> <<"$", "n">>, neg |-> <<"-", "$", "n">>],
     [pos |-> <<"n", " ", "$">>, neg |-> <<"(", "n", " ", "$", ")">>]}

LocaleRecord(code, d, sizes, gsep, dsep, pp) ==
    [CurrencyCode |-> code,
     CurrencyDecimalDigits |-> d,
     CurrencyGroupSizes |-> sizes,
     CurrencyGroupSeparator |-> gsep,
     CurrencyDecimalSeparator |-> dsep,
     CurrencyPositivePattern |-> pp.pos,
     CurrencyNegativePattern |-> pp.neg]

\* a locale directory: xx-XX is not in it
LocaleTable ==
    ("en-US" :> LocaleRecord(USD, 2, <<3>>, <<",">>, <<".">>,
                             [pos |-> <<"$", "n">>,
                              neg |-> <<"-", "$", "n">>])) @@
    ("hr-HR" :> LocaleRecord(HRK, 2, <<3>>, <<".">>, <<",">>,
                             [pos |-> <<"n", " ", "$">>,
                              neg |-> <<"-", "n", " ", "$">>])) @@
    ("ja-JP" :> LocaleRecord(JPY, 0, <<3>>, <<",">>, <<".">>,
                             [pos |-> <<"$", "n">>,
                              neg |-> <<"-", "$", "n">>]))

GroupSizeChoices ==
    {<< >>, <<3, 2>>} \cup {<<g>> : g \in -1..MaxGroupSize}

\* the records the locale directory may hold for a locale id
LocaleRecords ==
    {LocaleRecord(USD, d, sizes, <<",">>, <<".">>, pp) :
        d \in 0..MaxDigits, sizes \in GroupSizeChoices, pp \in PatternPairs}

\* the exponents given to the SetDecimal family: one below the accepted
\* range, accepted ones whose scale fits a machine integer (as 10^18 fits
\* an int64), one above the accepted range
Exponents ==
    {d \in -1..MaxD : d <= 0 \/ 10^d <= MaxInt} \cup {MAXDEC + 1}

\* the other operand of Add, Sub and Mul
Operands ==
    {MinInt, -1, 0, 1, MaxInt}

\* the amounts the display paths are explored from
Amounts ==
    {MinInt, MinInt + 1, -1005, -150, -1, 0, 5, 99, 100, 150, 1005,
     MaxInt}

FloatArgs == -MaxK..MaxK

---------------------------------------------------------------------------
(* Specifications. *)

\* New(m, c), the package variables at their initial values
New(m, c) ==
    /\ M = m /\ C = c
    /\ DP = 100 /\ DPf = 100
    /\ err = NoErr /\ out = NoText /\ ret = 0
    /\ last = [op |-> "New", a |-> m, c |-> c, dp |-> 100, b |-> m,
               cur |-> c, loc |-> ""]
    /\ pc = "idle" /\ fl = NoLocals /\ wholeVal = 0 /\ groups = << >>

\* Add, Sub, Neg, Abs and Sign from every amount
InitArith ==
    /\ \E m \in Int64 : New(m, USD)
    /\ locales = LocaleTable
    /\ currencies = CurrencyTable

NextArith ==
    \/ \E n \in Operands : Add(n) \/ Sub(n)
    \/ Neg \/ Abs \/ Sign

SpecArith == InitArith /\ [][NextArith]_vars

\* the import of a float under every accepted scale
InitRound ==
    /\ New(0, USD)
    /\ locales = LocaleTable
    /\ currencies = CurrencyTable

NextRound ==
    \/ \E d \in Exponents : SetDecimal(d)
    \/ \E k \in FloatArgs : Setf(k)
    \/ \E k \in FloatArgs : Setfc(k, XXX)

SpecRound == InitRound /\ [][NextRound]_vars

\* the setters of the scale and the calls that divide by it
InitScale ==
    /\ \E m \in {-150, 0, 150} : New(m, USD)
    /\ locales = LocaleTable
    /\ currencies = CurrencyTable

NextScale ==
    \/ \E d \in Exponents : SetDecimal(d)
    \/ \E c \in Codes : SetDecimalByCurrency(c)
    \/ \E lce \in LocaleIds : SetDecimalByLocale(lce)
    \/ \E n \in {-3, 0, 1, 150} : Mul(n)
    \/ Gett
    \/ String

SpecScale == InitScale /\ [][NextScale]_vars

\* the display paths under every accepted scale, with the setters of the
\* receiver
Init ==
    /\ \E m \in Amounts, c \in {USD, XXX} : New(m, c)
    /\ locales = LocaleTable
    /\ currencies = CurrencyTable

Next ==
    \/ \E d \in Exponents : SetDecimal(d)
    \/ \E x \in {-150, 1005} : Set(x) \/ Setc(x, HRK)
    \/ SetCurrency(JPY)
    \/ \E lce \in LocaleIds : SetCurrencyByLocale(lce) \/ Format(lce)
    \/ String
    \/ FormatGroup

Spec == Init /\ [][Next]_vars

\* Format under every locale record
InitFormat ==
    /\ \E m \in Amounts, c \in Codes : New(m, c)
    /\ \E r \in LocaleRecords : locales = ("en-US" :> r)
    /\ currencies = CurrencyTable

NextFormat ==
    \/ \E lce \in {"en-US", "xx-XX"} : Format(lce)
    \/ FormatGroup

SpecFormat == InitFormat /\ [][NextFormat]_vars

---------------------------------------------------------------------------
(* Claims. *)

\* C1: Add (Sub) fails with the overflow error exactly when the sum
\* (difference) of the two amounts lies outside the machine range; when it
\* fails the receiver keeps its amount, and when it does not the receiver
\* holds exactly the sum (difference).
C1_OverflowExact ==
    /\ last.op = "Add" =>
          LET s == last.a + last.b
          IN  /\ (err = ErrMoneyOverflow) <=> (s \notin Int64)
              /\ err = ErrMoneyOverflow => M = last.a
              /\ err # ErrMoneyOverflow => err = NoErr /\ M = s
    /\ last.op = "Sub" =>
          LET s == last.a - last.b
          IN  /\ (err = ErrMoneyOverflow) <=> (s \notin Int64)
              /\ err = ErrMoneyOverflow => M = last.a
              /\ err # ErrMoneyOverflow => err = NoErr /\ M = s

\* a subtraction of the least amount from a non-negative one overflowed
\* and left the receiver as it was
C1_Witness ==
    /\ last.op = "Sub" /\ last.b = MinInt /\ last.a >= 0
    /\ err = ErrMoneyOverflow /\ M = last.a

\* the integer part and the remainder the import of k * 2^-FBits
\* discards, from the scale in force
C2_Whole(k) ==
    IF k * DP >= 0 THEN (k * DP) \div FUnit ELSE -((-(k * DP)) \div FUnit)
C2_Remainder(k) == k * DP - C2_Whole(k) * FUnit

\* C2 (as amended): the rounding is half toward plus infinity: an import
\* stores r+1 when the discarded remainder is >= +0.5, r-1 when it is
\* < -0.5, and r otherwise, so a remainder of exactly -0.5 stores r.
C2_RoundHalfUp ==
    last.op \in {"Setf", "Setfc"} =>
        LET r == C2_Whole(last.b)
            t == C2_Remainder(last.b)
        IN  M = IF 2 * t >= FUnit THEN r + 1
                ELSE IF 2 * t < -FUnit THEN r - 1
                ELSE r

\* an import whose remainder is exactly -0.5 stored the truncated value
C2_Witness ==
    /\ last.op = "Setf" /\ last.b < 0
    /\ 2 * C2_Remainder(last.b) = -FUnit
    /\ M = C2_Whole(last.b)

\* C2 (as claimed): the rounding is half away from zero: an import stores
\* r+1 when the discarded remainder is >= +0.5, r-1 when it is <= -0.5,
\* and r otherwise.
C2_RoundHalfAwayFromZero ==
    last.op \in {"Setf", "Setfc"} =>
        LET r == C2_Whole(last.b)
            t == C2_Remainder(last.b)
        IN  M = IF 2 * t >= FUnit THEN r + 1
                ELSE IF 2 * t <= -FUnit THEN r - 1
                ELSE r

\* whether the last call, a setter of the scale, reached newDecimal
C3_Called ==
    \/ last.op = "SetDecimal"
    \/ last.op = "SetDecimalByCurrency" /\ CurrencyGet(last.cur) # Nil
    \/ last.op = "SetDecimalByLocale" /\ LocaleGet(last.loc) # Nil

\* C3: after an accepted setter call with exponent e in 0..18 the scale
\* DP (and DPf) is 10^e; the scale is always >= 1, and Mul, Gett and
\* String never divide by a zero scale.
C3_ScaleIsPowerOfTen ==
    /\ DP >= 1 /\ DPf >= 1
    /\ (C3_Called /\ last.b \in 0..MAXDEC) =>
          DP = 10^last.b /\ DPf = 10^last.b
    /\ last.op \in {"Mul", "Gett", "String"} => err # ErrRuntimeDivide

\* C4: SetDecimal(d) with d < 0 fails with an error kind of its own, that
\* is none of the overflow, divide-by-zero and too-large kinds, and with
\* d > 18 fails with the too-large kind; either way DP and DPf keep their
\* values.
C4_RejectedScale ==
    last.op = "SetDecimal" =>
        /\ last.b < 0 =>
              /\ err \notin {NoErr, ErrMoneyOverflow, ErrMoneyDivideByZero,
                             ErrMoneyDecimalPlacesTooLarge, ErrRuntimeDivide}
              /\ DP = last.dp /\ DPf = last.dp
        /\ last.b > MAXDEC =>
              /\ err = ErrMoneyDecimalPlacesTooLarge
              /\ DP = last.dp /\ DPf = last.dp

IsDigit(ch) ==
    ch \in {"0", "1", "2", "3", "4", "5", "6", "7", "8", "9"}

\* the rendering "{whole}.{fraction} {code}" with a two-digit fraction
C5_TwoDigitForm(text, whole, c) ==
    LET w == Numeral(whole)
    IN  /\ Len(text) = Len(w) + 3 + 1 + Len(c)
        /\ SubSeq(text, 1, Len(w)) = w
        /\ text[Len(w) + 1] = "."
        /\ IsDigit(text[Len(w) + 2]) /\ IsDigit(text[Len(w) + 3])
        /\ text[Len(w) + 4] = " "
        /\ SubSeq(text, Len(w) + 5, Len(text)) = c

\* C5: under every scale 10^e, e >= 1, String() renders
\* "{whole}.{fraction} {code}" with exactly two digits in the fraction,
\* a negative amount as one leading "-" and the rendering of its
\* magnitude.  Stated for the amounts whose magnitude is a machine
\* integer; the least amount fails before that, through Abs (C10).
C5_StringTwoDigits ==
    (last.op = "String" /\ last.dp >= 10 /\ last.a # MinInt) =>
        /\ err = NoErr
        /\ IF last.a < 0
           THEN /\ out # << >> /\ Head(out) = "-"
                /\ C5_TwoDigitForm(Tail(out), (-last.a) \div last.dp, last.c)
           ELSE C5_TwoDigitForm(out, last.a \div last.dp, last.c)

\* whether the last call, a Format, took the path of a known locale
FormatFound == last.op = "Format" /\ LocaleGet(last.loc) # Nil

\* whether that call has returned its string
FormatReturned == FormatFound /\ pc = "idle" /\ err = NoErr

\* digits cut from the least-significant end into chunks of g, joined
\* most-significant first with sep
RECURSIVE C6_Grouped(_, _, _)
C6_Grouped(digits, g, sep) ==
    IF Len(digits) <= g THEN digits
    ELSE C6_Grouped(SubSeq(digits, 1, Len(digits) - g), g, sep) \o sep
         \o SubSeq(digits, Len(digits) - g + 1, Len(digits))

\* the number the claim describes for amount v and locale record l
C6_Number(v, l) ==
    LET d == l.CurrencyDecimalDigits
        whole == AbsInt(v) \div 10^d
        frac == Numeral(AbsInt(v) % 10^d)
    IN  C6_Grouped(Numeral(whole), l.CurrencyGroupSizes[1],
                   l.CurrencyGroupSeparator)
        \o (IF d > 0
            THEN l.CurrencyDecimalSeparator \o Zeros(d - Len(frac)) \o frac
            ELSE << >>)

\* C6: for decimal_digits d >= 0 and first group size g >= 1 the number
\* Format builds is the numeral of |v| div 10^d in groups of g digits
\* from the right, then the decimal separator and |v| mod 10^d on
\* exactly d digits when d > 0.
C6_FormattedNumber ==
    (/\ FormatReturned
     /\ Len(fl.l.CurrencyGroupSizes) >= 1
     /\ fl.l.CurrencyGroupSizes[1] >= 1) =>
        fl.formatted = C6_Number(last.a, fl.l)

\* every "$" of the pattern replaced by symbol and every "n" of the
\* pattern by number
RECURSIVE C7_Substituted(_, _, _)
C7_Substituted(pattern, symbol, number) ==
    IF pattern = << >> THEN << >>
    ELSE (CASE Head(pattern) = "$" -> symbol
            [] Head(pattern) = "n" -> number
            [] OTHER -> <<Head(pattern)>>)
         \o C7_Substituted(Tail(pattern), symbol, number)

\* C7: Format's result is the pattern chosen by sign (negative pattern
\* iff the amount is < 0) with the markers of the pattern, and only
\* those, replaced by the resolved symbol and the formatted number.
\* Stated for the amounts whose magnitude is a machine integer.
C7_PatternSubstitution ==
    (FormatReturned /\ last.a # MinInt) =>
        out = C7_Substituted(
                  IF last.a < 0 THEN fl.l.CurrencyNegativePattern
                  ELSE fl.l.CurrencyPositivePattern,
                  IF CurrencyGet(last.c) # Nil
                  THEN CurrencyGet(last.c).Symbol ELSE last.c,
                  fl.formatted)

\* the number of digits of the whole part Format starts its loop from
C8_WholeDigits == Len(Numeral(AbsInt(Quot(AbsVal(last.a), fl.dp))))

\* C8: for a non-empty group_sizes, whatever its first element, Format's
\* grouping loop ends: it appends one group per iteration and no more
\* groups than the whole part has digits.  Stated for the amounts whose
\* magnitude is a machine integer.
C8_FormatTerminates ==
    (/\ FormatFound /\ last.a # MinInt
     /\ Len(LocaleGet(last.loc).CurrencyGroupSizes) >= 1
     /\ pc = "grouping") =>
        Len(groups) <= C8_WholeDigits

\* C9: String() and Format(loc) leave the receiver's amount and currency
\* code as they were.
C9_DisplayReadOnly ==
    last.op \in {"String", "Format"} => M = last.a /\ C = last.c

\* C10: after Abs() the amount is |x| and >= 0, so Sign() is +1; Neg()
\* stores exactly -x; for every x, the least one included.
C10_NegAbsExact ==
    /\ last.op = "Abs" =>
          M = AbsInt(last.a) /\ M >= 0 /\ SignValue(M) = 1
    /\ last.op = "Neg" => M = -last.a

====
